---- MODULE Spec2Model ----
(***************************************************************************)
(* Model of the circuitbuilder analysis engine and editor store.           *)
(*                                                                         *)
(*   extractNodes   (engine/graph)   union-find over wires, node numbering *)
(*   solveCircuit   (engine/solver)  MNA assembly, inversion, derivation   *)
(*   useCircuitStore (store)         the editor's document state           *)
(*                                                                         *)
(* Identities (uuidv4 strings in the program) are positive integers; the   *)
(* JavaScript value `undefined` of an optional terminal id is NoId.        *)
(***************************************************************************)
EXTENDS Integers, Sequences, FiniteSets, TLC

VARIABLES
    elements,            \* store: CircuitElement[]
    wires,               \* store: Wire[]
    selectedElementIds,  \* store: string[]
    selectedWireIds,     \* store: string[]
    drawingWire,         \* store: Wire | null
    nextId,              \* uuidv4: [element |-> n, wire |-> n], the next fresh ids
    inElements,          \* engine call: the `elements` argument
    inWires,             \* engine call: the `wires` argument
    pc,                  \* engine call: "input" before the call, "done" after
    nodes,               \* engine call: value returned by extractNodes
    result,              \* engine call: value returned (or thrown) by solveCircuit
    canvas               \* Canvas: isShortCircuit, shortedWireIds, shortedElementIds

vars == <<elements, wires, selectedElementIds, selectedWireIds, drawingWire,
          nextId, inElements, inWires, pc, nodes, result, canvas>>

storeVars == <<elements, wires, selectedElementIds, selectedWireIds, drawingWire, nextId>>
callVars == <<inElements, inWires, pc, nodes, result, canvas>>

(***************************************************************************)
(* Bounds of the model.                                                    *)
(***************************************************************************)
MaxElems == 2        \* elements of an extractNodes input
MaxWires == 2        \* wires of an extractNodes input

NoId == 0            \* `undefined` terminal id of a wire in progress
Null == <<>>         \* JavaScript null; a nullable value v is <<v>>

\* Wire ids and element ids are distinct uuids.
WireId(n) == 100 + n
FreshIds == [element |-> 1, wire |-> 1]

\* Terminal ids: slot k of the element with id e.
TermId(e, k) == 10 * e + k

(***************************************************************************)
(* Generic sequence helpers (Array.prototype.flatMap / filter / includes). *)
(***************************************************************************)
RECURSIVE FlatMapTerminals(_)
FlatMapTerminals(els) ==
    IF els = <<>> THEN <<>>
    ELSE Head(els).terminals \o FlatMapTerminals(Tail(els))

Includes(seq, x) == \E i \in 1..Len(seq) : seq[i] = x

(***************************************************************************)
(* extractNodes: union-find.  `parent` is the Map<string,string>; a key    *)
(* absent from the Map is absent from the function's domain.               *)
(***************************************************************************)
\* Variant: the root is looked up without rewriting parent[id].
RECURSIVE getParent_noCompress(_, _)
getParent_noCompress(parent, id) ==
    LET p1 == IF id \in DOMAIN parent THEN parent ELSE (id :> id) @@ parent
    IN  IF p1[id] # id
        THEN getParent_noCompress(p1, p1[id])
        ELSE [parent |-> p1, root |-> p1[id]]

RECURSIVE getParent(_, _)
getParent(parent, id) ==
    LET p1 == IF id \in DOMAIN parent THEN parent ELSE (id :> id) @@ parent
    IN  IF p1[id] # id
        THEN LET r == getParent(p1, p1[id])
                 p2 == [r.parent EXCEPT ![id] = r.root]
             IN  [parent |-> p2, root |-> p2[id]]
        ELSE [parent |-> p1, root |-> p1[id]]

\* Variant: id1 itself, not its root, is hung under the root of id2.
union_linkId(parent, id1, id2) ==
    LET r1 == getParent(parent, id1)
        r2 == getParent(r1.parent, id2)
    IN  IF r1.root # r2.root
        THEN [r2.parent EXCEPT ![id1] = r2.root]
        ELSE r2.parent

union(parent, id1, id2) ==
    LET r1 == getParent(parent, id1)
        r2 == getParent(r1.parent, id2)
    IN  IF r1.root # r2.root
        THEN [r2.parent EXCEPT ![r1.root] = r2.root]
        ELSE r2.parent

\* Variant: only the start of the wire is tested.
WireBound_startOnly(w) == w.startTerminalId # NoId

\* `if (wire.startTerminalId && wire.endTerminalId)`
WireBound(w) == w.startTerminalId # NoId /\ w.endTerminalId # NoId

RECURSIVE connectWires(_, _)
connectWires(parent, ws) ==
    IF ws = <<>> THEN parent
    ELSE connectWires(IF WireBound(Head(ws))
                      THEN union(parent, Head(ws).startTerminalId, Head(ws).endTerminalId)
                      ELSE parent,
                      Tail(ws))

\* Variant: the terminal that creates a group is not pushed into it.
RECURSIVE groupTerminals_elsePush(_, _, _, _)
groupTerminals_elsePush(parent, keys, groups, ts) ==
    IF ts = <<>> THEN [keys |-> keys, groups |-> groups]
    ELSE LET t == Head(ts)
             r == getParent(parent, t.id)
             root == r.root
         IN  IF root \in DOMAIN groups
             THEN groupTerminals_elsePush(r.parent, keys,
                                 [groups EXCEPT ![root] = Append(@, t)], Tail(ts))
             ELSE groupTerminals_elsePush(r.parent, Append(keys, root),
                                 (root :> <<>>) @@ groups, Tail(ts))

\* nodeGroups is a Map: `keys` is its insertion order, `groups` its values.
RECURSIVE groupTerminals(_, _, _, _)
groupTerminals(parent, keys, groups, ts) ==
    IF ts = <<>> THEN [keys |-> keys, groups |-> groups]
    ELSE LET t == Head(ts)
             r == getParent(parent, t.id)
             root == r.root
         IN  IF root \in DOMAIN groups
             THEN groupTerminals(r.parent, keys,
                                 [groups EXCEPT ![root] = Append(@, t)], Tail(ts))
             ELSE groupTerminals(r.parent, Append(keys, root),
                                 (root :> <<t>>) @@ groups, Tail(ts))

\* Array.prototype.sort with (a, b) => b.terminals.length - a.terminals.length:
\* a stable sort, descending by terminal count.
RECURSIVE InsertDesc(_, _)
InsertDesc(sorted, g) ==
    IF sorted = <<>> THEN <<g>>
    ELSE IF Len(Head(sorted)) >= Len(g)
         THEN <<Head(sorted)>> \o InsertDesc(Tail(sorted), g)
         ELSE <<g>> \o sorted

RECURSIVE SortBySizeFrom(_, _)
SortBySizeFrom(sorted, rest) ==
    IF rest = <<>> THEN sorted
    ELSE SortBySizeFrom(InsertDesc(sorted, Head(rest)), Tail(rest))

\* Variant: the groups are left in insertion order.
sortBySize_unsorted(gs) == gs

sortBySize(gs) == SortBySizeFrom(<<>>, gs)

\* The returned ElectricalNode[]: element i of the array has id i-1.
numberNodes(gs) == [i \in 1..Len(gs) |-> [id |-> i - 1, terminals |-> gs[i]]]

unionFind(ws) == connectWires(<<>>, ws)

extractNodes(els, ws) ==
    LET allTerminals == FlatMapTerminals(els)
        parent == unionFind(ws)
        g == groupTerminals(parent, <<>>, <<>>, allTerminals)
        nodesData == [i \in 1..Len(g.keys) |-> g.groups[g.keys[i]]]
    IN  numberNodes(sortBySize(nodesData))

(***************************************************************************)
(* Inputs of an engine call.                                               *)
(***************************************************************************)
Terminal(e, k) == [id |-> TermId(e, k), elementId |-> e]

InputElement(e, type, value, nTerminals) ==
    [id |-> e, type |-> type, value |-> value,
     terminals |-> [k \in 1..nTerminals |-> Terminal(e, k)]]

TerminalIdsOf(els) ==
    UNION {{els[i].terminals[k].id : k \in 1..Len(els[i].terminals)} : i \in 1..Len(els)}

InputWire(i, s, e) == [id |-> i, startTerminalId |-> s, endTerminalId |-> e]

\* All wire lists of length n whose endpoints are drawn from `ends`.
WireLists(n, ends) ==
    {[i \in 1..n |-> InputWire(i, f[i][1], f[i][2])] : f \in [1..n -> ends \X ends]}

\* A terminal id that belongs to no element of any input.
GhostId == TermId(MaxElems + 1, 1)

ResistorList(n) == [e \in 1..n |-> InputElement(e, "Resistor", 1, 2)]

ExtractInit ==
    /\ elements = <<>> /\ wires = <<>>
    /\ selectedElementIds = <<>> /\ selectedWireIds = <<>>
    /\ drawingWire = Null /\ nextId = FreshIds
    /\ \E n \in 0..MaxElems : inElements = ResistorList(n)
    /\ \E w \in 0..MaxWires :
          inWires \in WireLists(w, TerminalIdsOf(inElements) \cup {NoId, GhostId})
    /\ pc = "input"
    /\ nodes = <<>>
    /\ result = Null
    /\ canvas = Null

\* const nodes = extractNodes(elements, wires)
ExtractCall ==
    /\ pc = "input"
    /\ nodes' = extractNodes(inElements, inWires)
    /\ pc' = "done"
    /\ UNCHANGED <<storeVars, inElements, inWires, result, canvas>>

ExtractNext == ExtractCall

SpecExtract == ExtractInit /\ [][ExtractNext]_vars

(***************************************************************************)
(* useCircuitStore: the editor's document.  A wire's `points` (rendering    *)
(* geometry) are not part of the model.                                    *)
(***************************************************************************)
MaxElemIds == 2      \* elements created in one run
MaxWireIds == 1      \* wires started or merged in one run

ElementTypes == {"Resistor", "VoltageSource", "CurrentSource", "VCVS"}

\* Drop positions used by the model, in world units (the canvas rounds to 10).
DropXs == {0}
DropYs == {0, 80}

StoreTerminal(elementId, k, name, x, y) ==
    [id |-> TermId(elementId, k), elementId |-> elementId, name |-> name, x |-> x, y |-> y]

generateTerminals_twoForAll(elementId, type) ==
    << StoreTerminal(elementId, 1, "A", 0, -40),
       StoreTerminal(elementId, 2, "B", 0, 40) >>

generateTerminals(elementId, type) ==
    CASE type \in {"Resistor", "VoltageSource", "CurrentSource"} ->
            << StoreTerminal(elementId, 1, "A", 0, -40),
               StoreTerminal(elementId, 2, "B", 0, 40) >>
      [] type = "VCVS" ->
            << StoreTerminal(elementId, 1, "A", 40, -20),
               StoreTerminal(elementId, 2, "B", 40, 20),
               StoreTerminal(elementId, 3, "C", -40, -20),
               StoreTerminal(elementId, 4, "D", -40, 20) >>
      [] OTHER -> <<>>

getPrefix(type) ==
    CASE type = "Resistor" -> "R"
      [] type = "VoltageSource" -> "V"
      [] type = "CurrentSource" -> "I"
      [] type = "VCVS" -> "E"
      [] OTHER -> "U"

getInitialValue(type) ==
    CASE type = "Resistor" -> 1
      [] type = "VoltageSource" -> 5
      [] type = "CurrentSource" -> 1
      [] type = "VCVS" -> 2
      [] OTHER -> 0

StoreInit ==
    /\ elements = <<>>
    /\ wires = <<>>
    /\ selectedElementIds = <<>>
    /\ selectedWireIds = <<>>
    /\ drawingWire = Null
    /\ nextId = FreshIds
    /\ inElements = <<>> /\ inWires = <<>> /\ pc = "idle"
    /\ nodes = <<>> /\ result = Null /\ canvas = Null

ElementIds == {elements[i].id : i \in 1..Len(elements)}
WireIds == {wires[i].id : i \in 1..Len(wires)}
StoreTerminalIds == TerminalIdsOf(elements)

addElement(type, x, y) ==
    /\ LET id == nextId.element
           count == Len(SelectSeq(elements, LAMBDA e : e.type = type)) + 1
           newElement == [id |-> id, type |-> type, x |-> x, y |-> y, rotation |-> 0,
                          value |-> getInitialValue(type),
                          label |-> <<getPrefix(type), count>>,
                          terminals |-> generateTerminals(id, type)]
       IN  elements' = Append(elements, newElement)
    /\ nextId' = [nextId EXCEPT !.element = @ + 1]
    /\ UNCHANGED <<wires, selectedElementIds, selectedWireIds, drawingWire, callVars>>

deleteSelection ==
    LET afterSelected == SelectSeq(wires, LAMBDA w : ~Includes(selectedWireIds, w.id))
        remainingElements == SelectSeq(elements, LAMBDA e : ~Includes(selectedElementIds, e.id))
        terminalIdsToDelete ==
            TerminalIdsOf(SelectSeq(elements, LAMBDA e : Includes(selectedElementIds, e.id)))
        remainingWires ==
            SelectSeq(afterSelected, LAMBDA w : /\ w.startTerminalId \notin terminalIdsToDelete
                                                /\ w.endTerminalId \notin terminalIdsToDelete)
    IN  /\ elements' = remainingElements
        /\ wires' = remainingWires
        /\ selectedElementIds' = <<>>
        /\ selectedWireIds' = <<>>
        /\ UNCHANGED <<drawingWire, nextId, callVars>>

startWire(terminalId) ==
    /\ nextId.wire <= MaxWireIds
    /\ drawingWire' = <<[id |-> WireId(nextId.wire), startTerminalId |-> terminalId,
                          endTerminalId |-> NoId]>>
    /\ nextId' = [nextId EXCEPT !.wire = @ + 1]
    /\ UNCHANGED <<elements, wires, selectedElementIds, selectedWireIds, callVars>>

finishWire_noGuard(terminalId) ==
    /\ drawingWire # Null
    /\ wires' = Append(wires, [drawingWire[1] EXCEPT !.endTerminalId = terminalId])
    /\ drawingWire' = Null
    /\ UNCHANGED <<elements, selectedElementIds, selectedWireIds, nextId, callVars>>

finishWire(terminalId) ==
    /\ drawingWire # Null
    /\ IF drawingWire[1].startTerminalId # terminalId
       THEN /\ wires' = Append(wires, [drawingWire[1] EXCEPT !.endTerminalId = terminalId])
            /\ drawingWire' = Null
       ELSE /\ drawingWire' = Null
            /\ UNCHANGED wires
    /\ UNCHANGED <<elements, selectedElementIds, selectedWireIds, nextId, callVars>>

cancelWire ==
    /\ drawingWire' = Null
    /\ UNCHANGED <<elements, wires, selectedElementIds, selectedWireIds, nextId, callVars>>

Toggle(seq, id) ==
    IF Includes(seq, id) THEN SelectSeq(seq, LAMBDA x : x # id) ELSE Append(seq, id)

selectItem(id, multi, isWire) ==
    /\ IF isWire
       THEN IF multi
            THEN /\ selectedWireIds' = Toggle(selectedWireIds, id)
                 /\ UNCHANGED selectedElementIds
            ELSE /\ selectedWireIds' = <<id>>
                 /\ selectedElementIds' = <<>>
       ELSE IF multi
            THEN /\ selectedElementIds' = Toggle(selectedElementIds, id)
                 /\ UNCHANGED selectedWireIds
            ELSE /\ selectedElementIds' = <<id>>
                 /\ selectedWireIds' = <<>>
    /\ UNCHANGED <<elements, wires, drawingWire, nextId, callVars>>

\* Math.cos / Math.sin of a rotation of 0, 90, 180 or 270 degrees.
Cos(rotation) == CASE rotation = 0 -> 1 [] rotation = 180 -> -1 [] OTHER -> 0
Sin(rotation) == CASE rotation = 90 -> 1 [] rotation = 270 -> -1 [] OTHER -> 0

SNAP == 32

\* positions: the world position of every terminal, in element and slot order.
RECURSIVE terminalPositions(_)
terminalPositions(els) ==
    IF els = <<>> THEN <<>>
    ELSE LET el == Head(els)
         IN  [k \in 1..Len(el.terminals) |->
                 [terminalId |-> el.terminals[k].id,
                  wx |-> el.x + el.terminals[k].x * Cos(el.rotation)
                              - el.terminals[k].y * Sin(el.rotation),
                  wy |-> el.y + el.terminals[k].x * Sin(el.rotation)
                              + el.terminals[k].y * Cos(el.rotation)]]
             \o terminalPositions(Tail(els))

connectedPairs_none(ws) == {}

\* Keys of `connected` ([a, b].sort().join('|')) are unordered pairs.
connectedPairs(ws) ==
    {{ws[i].startTerminalId, ws[i].endTerminalId} : i \in {j \in 1..Len(ws) : WireBound(ws[j])}}

WithinSnap(a, b) ==
    (a.wx - b.wx) * (a.wx - b.wx) + (a.wy - b.wy) * (a.wy - b.wy) <= SNAP * SNAP

\* The double loop over i < j: the wires to add, visiting pairs from (i, j) on.
RECURSIVE mergeLoop(_, _, _, _, _)
mergeLoop(positions, i, j, connected, newWires) ==
    IF i > Len(positions) THEN newWires
    ELSE IF j > Len(positions) THEN mergeLoop(positions, i + 1, i + 2, connected, newWires)
    ELSE LET a == positions[i]
             b == positions[j]
             key == {a.terminalId, b.terminalId}
         IN  IF a.terminalId # b.terminalId /\ WithinSnap(a, b) /\ key \notin connected
             THEN mergeLoop(positions, i, j + 1, connected \cup {key},
                            Append(newWires, [startTerminalId |-> a.terminalId,
                                              endTerminalId |-> b.terminalId]))
             ELSE mergeLoop(positions, i, j + 1, connected, newWires)

mergeNearbyTerminals ==
    LET newWires == mergeLoop(terminalPositions(elements), 1, 2, connectedPairs(wires), <<>>)
    IN  /\ nextId.wire + Len(newWires) - 1 <= MaxWireIds
        /\ IF Len(newWires) > 0
           THEN wires' = wires \o [k \in 1..Len(newWires) |->
                                     [id |-> WireId(nextId.wire + k - 1),
                                      startTerminalId |-> newWires[k].startTerminalId,
                                      endTerminalId |-> newWires[k].endTerminalId]]
           ELSE UNCHANGED wires
        /\ nextId' = [nextId EXCEPT !.wire = @ + Len(newWires)]
        /\ UNCHANGED <<elements, selectedElementIds, selectedWireIds, drawingWire, callVars>>

Next ==
    \/ /\ nextId.element <= MaxElemIds
       /\ \E type \in ElementTypes, x \in DropXs, y \in DropYs : addElement(type, x, y)
    \/ deleteSelection
    \/ \E t \in StoreTerminalIds : startWire(t)
    \/ \E t \in StoreTerminalIds : finishWire(t)
    \/ cancelWire
    \/ \E id \in ElementIds, multi \in BOOLEAN : selectItem(id, multi, FALSE)
    \/ \E id \in WireIds, multi \in BOOLEAN : selectItem(id, multi, TRUE)
    \/ mergeNearbyTerminals

Spec == StoreInit /\ [][Next]_vars

\* C4: every wire of the store has both endpoints bound to terminals of
\* elements currently in `elements`.
C4_WiresBoundToLiveTerminals ==
    \A i \in 1..Len(wires) :
        /\ wires[i].startTerminalId \in StoreTerminalIds
        /\ wires[i].endTerminalId \in StoreTerminalIds

(***************************************************************************)
(* Properties of extractNodes (checked under SpecExtract).                 *)
(***************************************************************************)
NodeIndices == 1..Len(nodes)
NodeTerminalIds(i) == {nodes[i].terminals[j].id : j \in 1..Len(nodes[i].terminals)}

\* Number of places (node, position) at which terminal id t occurs in the result.
Occurrences(t) ==
    Cardinality({<<i, j>> \in NodeIndices \X (1..(4 * (MaxElems + 1))) :
                   j <= Len(nodes[i].terminals) /\ nodes[i].terminals[j].id = t})

\* C1: the nodes returned by extractNodes partition the input terminals: every
\* input terminal occurs in exactly one node (and once), no node is empty, and
\* every terminal of a node is a terminal of an input element.
C1_Partition ==
    pc = "done" =>
        /\ \A t \in TerminalIdsOf(inElements) : Occurrences(t) = 1
        /\ \A i \in NodeIndices : nodes[i].terminals # <<>>
        /\ \A i \in NodeIndices : \A j \in 1..Len(nodes[i].terminals) :
               /\ nodes[i].terminals[j].id \in TerminalIdsOf(inElements)
               /\ \E e \in 1..Len(inElements) :
                     Includes(inElements[e].terminals, nodes[i].terminals[j])

C1_Witness ==
    /\ pc = "done"
    /\ Len(nodes) >= 2
    /\ \E i \in NodeIndices : Len(nodes[i].terminals) >= 2
    /\ \E i \in 1..Len(inWires) : inWires[i].startTerminalId = GhostId

\* Reference connectivity: ids joined by a chain of wires with both ends set.
BoundWirePairs(ws) ==
    {<<ws[i].startTerminalId, ws[i].endTerminalId>> :
        i \in {j \in 1..Len(ws) : ws[j].startTerminalId # NoId /\ ws[j].endTerminalId # NoId}}

RECURSIVE ReachFrom(_, _)
ReachFrom(S, pairs) ==
    LET step == S \cup {p[2] : p \in {q \in pairs : q[1] \in S}}
                  \cup {p[1] : p \in {q \in pairs : q[2] \in S}}
    IN  IF step = S THEN S ELSE ReachFrom(step, pairs)

Linked(t1, t2, ws) == t2 \in ReachFrom({t1}, BoundWirePairs(ws))

SameNode(t1, t2) == \E i \in NodeIndices : {t1, t2} \subseteq NodeTerminalIds(i)

\* C2: two terminals are in the same node iff a chain of wires that each have
\* both startTerminalId and endTerminalId set links them.
C2_SameNodeIffLinked ==
    pc = "done" =>
        \A t1, t2 \in TerminalIdsOf(inElements) :
            SameNode(t1, t2) <=> Linked(t1, t2, inWires)

\* Two terminals joined by a chain of two wires, with no wire between them.
C2_Witness ==
    /\ pc = "done"
    /\ \E t1, t2 \in TerminalIdsOf(inElements) :
          /\ t1 # t2
          /\ SameNode(t1, t2)
          /\ \A i \in 1..Len(inWires) :
                {inWires[i].startTerminalId, inWires[i].endTerminalId} # {t1, t2}

\* Wires whose two ids are terminals of elements of the input.
ExistingWires(els, ws) ==
    SelectSeq(ws, LAMBDA w : /\ w.startTerminalId \in TerminalIdsOf(els)
                             /\ w.endTerminalId \in TerminalIdsOf(els))

\* C3: a wire naming a terminal id that belongs to no input element has no
\* effect on the grouping: the nodes are those of the wires between existing
\* terminals alone.
C3_GhostWiresIgnored ==
    pc = "done" =>
        \A t1, t2 \in TerminalIdsOf(inElements) :
            SameNode(t1, t2) <=> Linked(t1, t2, ExistingWires(inElements, inWires))

\* C5: node ids are 0..k-1 in array order, each once, and terminal counts are
\* non-increasing in the id, so node 0 has the maximum count.
C5_IdsAndOrder ==
    pc = "done" =>
        /\ \A i \in NodeIndices : nodes[i].id = i - 1
        /\ \A i, j \in NodeIndices :
              nodes[i].id < nodes[j].id =>
                  Len(nodes[i].terminals) >= Len(nodes[j].terminals)
        /\ \A i \in NodeIndices :
              nodes[i].id = 0 =>
                  \A j \in NodeIndices : Len(nodes[i].terminals) >= Len(nodes[j].terminals)

\* A run in which the largest group is not the first one inserted.
C5_Witness ==
    /\ pc = "done"
    /\ Len(nodes) >= 2
    /\ Len(nodes[1].terminals) > Len(nodes[2].terminals)
    /\ inElements[1].terminals[1].id \notin NodeTerminalIds(1)

(***************************************************************************)
(* Numbers of the solver.  Arithmetic is exact: a number is a polynomial   *)
(* in GMIN with rational coefficients, <<c0, c1, ...>> standing for        *)
(* c0 + c1*GMIN + ..., each coefficient a reduced fraction <<n, d>>.       *)
(* GMIN = 1e-12 is the root of no such polynomial with coefficients of the *)
(* size met here, so a number is zero iff all its coefficients are.        *)
(* Resistances are nonzero and all inputs finite, so no entry of A or z    *)
(* is NaN or infinite.                                                     *)
(***************************************************************************)
Abs(n) == IF n < 0 THEN -n ELSE n

RECURSIVE Gcd(_, _)
Gcd(a, b) == IF b = 0 THEN a ELSE Gcd(b, a % b)

Frac(n, d) ==
    LET g == Gcd(Abs(n), Abs(d))
    IN  IF d < 0 THEN <<(-n) \div g, (-d) \div g>> ELSE <<n \div g, d \div g>>

FAdd(a, b) == Frac(a[1] * b[2] + b[1] * a[2], a[2] * b[2])
FMul(a, b) == Frac(a[1] * b[1], a[2] * b[2])
FNeg(a) == <<-a[1], a[2]>>

Coef(p, i) == IF i <= Len(p) THEN p[i] ELSE <<0, 1>>

Num(n) == <<Frac(n, 1)>>
Zero == Num(0)
One == Num(1)
GMIN == <<Frac(0, 1), Frac(1, 1)>>
Recip_value(n) == <<Frac(n, 1)>>
Recip(n) == <<Frac(1, n)>>                      \* 1 / n for an integer n # 0

IsZero(p) == \A i \in 1..Len(p) : p[i][1] = 0

Add(p, q) ==
    [i \in 1..(IF Len(p) > Len(q) THEN Len(p) ELSE Len(q)) |-> FAdd(Coef(p, i), Coef(q, i))]
Neg(p) == [i \in 1..Len(p) |-> FNeg(p[i])]
Sub(p, q) == Add(p, Neg(q))

RECURSIVE ConvSum(_, _, _, _)
ConvSum(p, q, k, i) ==
    IF i > Len(p) THEN <<0, 1>>
    ELSE IF k - i + 1 >= 1 /\ k - i + 1 <= Len(q)
         THEN FAdd(FMul(p[i], q[k - i + 1]), ConvSum(p, q, k, i + 1))
         ELSE ConvSum(p, q, k, i + 1)

Mul(p, q) ==
    IF IsZero(p) \/ IsZero(q) THEN Zero
    ELSE [k \in 1..(Len(p) + Len(q) - 1) |-> ConvSum(p, q, k, 1)]

(***************************************************************************)
(* Matrices (mathjs.zeros, Matrix.get, Matrix.set).  Row and column r of    *)
(* the program (0-based) are r + 1 here.                                   *)
(***************************************************************************)
zeros(rows, cols) == [r \in 1..rows |-> [c \in 1..cols |-> Zero]]
MGet(M, r, c) == M[r + 1][c + 1]
MSet(M, r, c, v) == [M EXCEPT ![r + 1][c + 1] = v]

\* The matrix without row 1 and column c.
Minor(M, c) ==
    [r \in 1..(Len(M) - 1) |->
        [k \in 1..(Len(M) - 1) |-> IF k < c THEN M[r + 1][k] ELSE M[r + 1][k + 1]]]

\* Sum of a sequence of numbers.
RECURSIVE SumSeq(_)
SumSeq(ps) == IF ps = <<>> THEN Zero ELSE Add(Head(ps), SumSeq(Tail(ps)))

\* Determinant, by cofactor expansion along the first row.
RECURSIVE Det(_)
Det(M) ==
    IF Len(M) = 0 THEN One
    ELSE SumSeq([c \in 1..Len(M) |->
                   IF IsZero(M[1][c]) THEN Zero
                   ELSE IF c % 2 = 1 THEN Mul(M[1][c], Det(Minor(M, c)))
                   ELSE Neg(Mul(M[1][c], Det(Minor(M, c))))])

(***************************************************************************)
(* Values of a SolverResult: n / d for numbers n and d.  d zero is a value *)
(* that is not finite (NaN or an infinity).                                *)
(***************************************************************************)
Val(p) == [n |-> p, d |-> One]
NaN == [n |-> Zero, d |-> Zero]                  \* also `undefined` in arithmetic
IsFiniteVal(v) == ~IsZero(v.d)

VSub(a, b) == [n |-> Sub(Mul(a.n, b.d), Mul(b.n, a.d)), d |-> Mul(a.d, b.d)]
VMul(a, b) == [n |-> Mul(a.n, b.n), d |-> Mul(a.d, b.d)]
VDiv(a, b) == [n |-> Mul(a.n, b.d), d |-> Mul(a.d, b.n)]
VNeg(a) == [n |-> Neg(a.n), d |-> a.d]
VEq(a, b) == IsFiniteVal(a) /\ IsFiniteVal(b) /\ IsZero(Sub(Mul(a.n, b.d), Mul(b.n, a.d)))

\* Sign of a number at GMIN = 1e-12: that of its lowest-order nonzero coefficient.
RECURSIVE SignFrom(_, _)
SignFrom(p, i) ==
    IF i > Len(p) THEN 0
    ELSE IF p[i][1] > 0 THEN 1
    ELSE IF p[i][1] < 0 THEN -1
    ELSE SignFrom(p, i + 1)
VAbs(a) == [n |-> IF SignFrom(a.n, 1) < 0 THEN Neg(a.n) ELSE a.n,
            d |-> IF SignFrom(a.d, 1) < 0 THEN Neg(a.d) ELSE a.d]

(***************************************************************************)
(* solveCircuit.                                                           *)
(***************************************************************************)
\* { nodeVoltages: {}, elementCurrents: {}, elementPower: {} }
EmptyResult(assembled) ==
    [thrown |-> FALSE, nodeVoltages |-> <<>>, elementCurrents |-> <<>>,
     elementPower |-> <<>>, assembled |-> assembled]

\* An exception leaves solveCircuit: there is no returned value.
Thrown == [thrown |-> TRUE, nodeVoltages |-> <<>>, elementCurrents |-> <<>>,
           elementPower |-> <<>>, assembled |-> TRUE]

getNodeIndex(ns, terminalId) ==
    LET found == {i \in 1..Len(ns) :
                    \E j \in 1..Len(ns[i].terminals) : ns[i].terminals[j].id = terminalId}
    IN  IF found = {} THEN -1
        ELSE ns[CHOOSE i \in found : \A k \in found : i <= k].id

\* Terminal slots that solveCircuit dereferences (element.terminals[k].id).
slotsRead(type) ==
    CASE type \in {"Resistor", "CurrentSource", "VoltageSource"} -> 2
      [] type = "VCVS" -> 4
      [] OTHER -> 0

\* `element.terminals[k].id` with terminals[k] undefined is a TypeError.
throwsTypeError(els) ==
    \E i \in 1..Len(els) : Len(els[i].terminals) < slotsRead(els[i].type)

isVSource(e) == e.type = "VoltageSource" \/ e.type = "VCVS"

\* One iteration of the first elements.forEach; st = [A, z].
stampElement(st, element, ns) ==
    IF element.type = "Resistor"
    THEN LET g == Recip(element.value)
             t1 == getNodeIndex(ns, element.terminals[1].id)
             t2 == getNodeIndex(ns, element.terminals[2].id)
             A1 == IF t1 > 0
                   THEN MSet(st.A, t1 - 1, t1 - 1, Add(MGet(st.A, t1 - 1, t1 - 1), g))
                   ELSE st.A
             A2 == IF t2 > 0
                   THEN MSet(A1, t2 - 1, t2 - 1, Add(MGet(A1, t2 - 1, t2 - 1), g))
                   ELSE A1
             A3 == IF t1 > 0 /\ t2 > 0
                   THEN MSet(A2, t1 - 1, t2 - 1, Sub(MGet(A2, t1 - 1, t2 - 1), g))
                   ELSE A2
             A4 == IF t1 > 0 /\ t2 > 0
                   THEN MSet(A3, t2 - 1, t1 - 1, Sub(MGet(A3, t2 - 1, t1 - 1), g))
                   ELSE A3
         IN  [A |-> A4, z |-> st.z]
    ELSE IF element.type = "CurrentSource"
    THEN LET tA == getNodeIndex(ns, element.terminals[1].id)
             tB == getNodeIndex(ns, element.terminals[2].id)
             z1 == IF tA > 0
                   THEN MSet(st.z, tA - 1, 0, Add(MGet(st.z, tA - 1, 0), Num(element.value)))
                   ELSE st.z
             z2 == IF tB > 0
                   THEN MSet(z1, tB - 1, 0, Sub(MGet(z1, tB - 1, 0), Num(element.value)))
                   ELSE z1
         IN  [A |-> st.A, z |-> z2]
    ELSE st

RECURSIVE stampElements(_, _, _)
stampElements(st, els, ns) ==
    IF els = <<>> THEN st
    ELSE stampElements(stampElement(st, Head(els), ns), Tail(els), ns)

\* for (let i = 0; i < numNodes; i++) A[i][i] += GMIN
RECURSIVE addGmin(_, _, _)
addGmin(A, i, numNodes) ==
    IF i >= numNodes THEN A
    ELSE addGmin(MSet(A, i, i, Add(MGet(A, i, i), GMIN)), i + 1, numNodes)

SetIf(cond, M, r, c, v) == IF cond THEN MSet(M, r, c, v) ELSE M

\* One iteration of vSources.forEach((vSource, idx) => ...).
stampSource(st, vSource, idx, numNodes, ns) ==
    LET vIdx == numNodes + idx
        posNode == getNodeIndex(ns, vSource.terminals[1].id)
        negNode == getNodeIndex(ns, vSource.terminals[2].id)
        B1 == SetIf(posNode > 0, st.A, posNode - 1, vIdx, Num(1))
        B2 == SetIf(negNode > 0, B1, negNode - 1, vIdx, Num(-1))
    IN  IF vSource.type = "VoltageSource"
        THEN LET C1 == SetIf(posNode > 0, B2, vIdx, posNode - 1, Num(1))
                 C2 == SetIf(negNode > 0, C1, vIdx, negNode - 1, Num(-1))
             IN  [A |-> C2, z |-> MSet(st.z, vIdx, 0, Num(vSource.value))]
        ELSE IF vSource.type = "VCVS"
        THEN LET gain == Num(vSource.value)
                 inPosNode == getNodeIndex(ns, vSource.terminals[3].id)
                 inNegNode == getNodeIndex(ns, vSource.terminals[4].id)
                 C1 == SetIf(posNode > 0, B2, vIdx, posNode - 1, Num(1))
                 C2 == SetIf(negNode > 0, C1, vIdx, negNode - 1, Num(-1))
                 C3 == SetIf(inPosNode > 0, C2, vIdx, inPosNode - 1, Neg(gain))
                 C4 == SetIf(inNegNode > 0, C3, vIdx, inNegNode - 1, gain)
             IN  [A |-> C4, z |-> st.z]
        ELSE [A |-> B2, z |-> st.z]

RECURSIVE stampSources(_, _, _, _, _)
stampSources(st, vSources, idx, numNodes, ns) ==
    IF idx >= Len(vSources) THEN st
    ELSE stampSources(stampSource(st, vSources[idx + 1], idx, numNodes, ns),
                      vSources, idx + 1, numNodes, ns)

\* The matrix A and vector z handed to mathjs.inv / mathjs.multiply.
assemble(els, ns) ==
    LET numNodes == Len(ns) - 1
        vSources == SelectSeq(els, isVSource)
        size == numNodes + Len(vSources)
        st0 == [A |-> zeros(size, size), z |-> zeros(size, 1)]
        st1 == stampElements(st0, els, ns)
        st2 == [A |-> addGmin(st1.A, 0, numNodes), z |-> st1.z]
    IN  stampSources(st2, vSources, 0, numNodes, ns)

\* mathjs.inv throws "Cannot calculate inverse, determinant is zero".
invThrows_never(A) == FALSE
invThrows(A) == IsZero(Det(A))

\* Entry k (0-based) of inv(A) * z, by Cramer's rule.
solveX(A, z, k) ==
    [n |-> Det([r \in 1..Len(A) |->
                  [c \in 1..Len(A) |-> IF c = k + 1 THEN z[r][1] ELSE A[r][c]]]),
     d |-> Det(A)]

\* nodeVoltages[i] of a JavaScript object: undefined when the key is absent.
voltageAt(nodeVoltages, i) == IF i \in DOMAIN nodeVoltages THEN nodeVoltages[i] ELSE NaN

elementCurrent(e, els, ns, x, nodeVoltages) ==
    LET numNodes == Len(ns) - 1
        vSources == SelectSeq(els, isVSource)
    IN  IF isVSource(e)
        THEN x[numNodes + (CHOOSE idx \in 0..(Len(vSources) - 1) : vSources[idx + 1] = e) + 1]
        ELSE IF e.type = "Resistor"
        THEN VDiv(VSub(voltageAt(nodeVoltages, getNodeIndex(ns, e.terminals[1].id)),
                       voltageAt(nodeVoltages, getNodeIndex(ns, e.terminals[2].id))),
                  Val(Num(e.value)))
        ELSE Val(Num(e.value))

elementPowerOf(e, els, ns, x, nodeVoltages) ==
    LET current == elementCurrent(e, els, ns, x, nodeVoltages)
        vDelta == VSub(voltageAt(nodeVoltages, getNodeIndex(ns, e.terminals[1].id)),
                       voltageAt(nodeVoltages, getNodeIndex(ns, e.terminals[2].id)))
    IN  IF isVSource(e) THEN VNeg(VMul(vDelta, current))
        ELSE IF e.type = "Resistor"
        THEN VAbs(VMul(VMul(current, current), Val(Num(e.value))))
        ELSE VMul(vDelta, current)

\* Elements that get an entry in elementCurrents and elementPower.
isDerived_secondLoopOnly(e) == e.type = "Resistor" \/ e.type = "CurrentSource"
isDerived(e) == isVSource(e) \/ e.type = "Resistor" \/ e.type = "CurrentSource"

\* if (numNodes <= 0) return { nodeVoltages: {}, ... }
nothingToSolve_never(numNodes) == FALSE
nothingToSolve(numNodes) == numNodes <= 0

\* const nodeVoltages = { 0: 0 }; for (i < numNodes) nodeVoltages[i + 1] = x.get([i, 0])
nodeVoltagesOf_noGround(x, numNodes) == [i \in 0..(numNodes - 1) |-> x[i + 1]]
nodeVoltagesOf(x, numNodes) == [i \in 0..numNodes |-> IF i = 0 THEN Val(Zero) ELSE x[i]]

\* The element that the last write to elementCurrents[id] came from.
elementWithId(els, id) ==
    els[CHOOSE i \in 1..Len(els) :
          /\ els[i].id = id
          /\ \A j \in 1..Len(els) : els[j].id = id => j <= i]

\* Lines 120-159: the returned object, from the solution x and nodeVoltages.
derivedResult(els, ns, x, nodeVoltages) ==
    [thrown |-> FALSE,
     nodeVoltages |-> nodeVoltages,
     elementCurrents |->
         [id \in {els[i].id : i \in {j \in 1..Len(els) : isDerived(els[j])}} |->
             elementCurrent(elementWithId(els, id), els, ns, x, nodeVoltages)],
     elementPower |->
         [id \in {els[i].id : i \in {j \in 1..Len(els) : isDerived(els[j])}} |->
             elementPowerOf(elementWithId(els, id), els, ns, x, nodeVoltages)],
     assembled |-> TRUE]

\* Lines 104-118: try { inv; multiply } catch { return empty }, then voltages.
solveAssembled(els, ns, st) ==
    IF invThrows(st.A) THEN EmptyResult(TRUE)
    ELSE derivedResult(els, ns, [k \in 1..Len(st.A) |-> solveX(st.A, st.z, k - 1)],
                       nodeVoltagesOf([k \in 1..Len(st.A) |-> solveX(st.A, st.z, k - 1)],
                                      Len(ns) - 1))

\* Lines 23-102: from the extracted nodes to the assembled system.
solveNodes(els, ns) ==
    IF nothingToSolve(Len(ns) - 1) THEN EmptyResult(FALSE)
    ELSE IF throwsTypeError(els) THEN Thrown
    ELSE solveAssembled(els, ns, assemble(els, ns))

solveCircuit(els, ws) ==
    IF Len(els) = 0 THEN EmptyResult(FALSE)
    ELSE solveNodes(els, extractNodes(els, ws))

(***************************************************************************)
(* Calls of solveCircuit on bounded inputs.                                *)
(***************************************************************************)
SolveMaxElems == 2
SolveMaxWires == 2

\* Values an element may carry; a resistance of 0 is left to the anomaly checks.
SolveValues(type) == IF type = "Resistor" THEN {1, 2} ELSE {getInitialValue(type)}

\* Terminal lists as generateTerminals builds them, and lists cut short.
SolveTerminalCounts(type) == {slotsRead(type), 1}

SolveElementsAt(e) ==
    {InputElement(e, type, v, n) :
        <<type, v, n>> \in UNION {{<<t, v, n>> : v \in SolveValues(t), n \in SolveTerminalCounts(t)} :
                                    t \in ElementTypes}}

SolveElementLists(n) ==
    {f \in [1..n -> UNION {SolveElementsAt(e) : e \in 1..n}] :
        \A e \in 1..n : f[e].id = e}

\* A terminal id that belongs to no element of any solver input.
SolveGhostId == TermId(SolveMaxElems + 1, 1)

\* Wire lists without repeated or reversed duplicates, in one canonical order.
SolveWireLists(n, ends) ==
    {ws \in WireLists(n, ends) :
        /\ \A i \in 1..n : ws[i].startTerminalId < ws[i].endTerminalId
        /\ \A i \in 1..(n - 1) :
              \/ ws[i].startTerminalId < ws[i + 1].startTerminalId
              \/ /\ ws[i].startTerminalId = ws[i + 1].startTerminalId
                 /\ ws[i].endTerminalId < ws[i + 1].endTerminalId}

SolveInit ==
    /\ elements = <<>> /\ wires = <<>>
    /\ selectedElementIds = <<>> /\ selectedWireIds = <<>>
    /\ drawingWire = Null /\ nextId = FreshIds
    /\ \E n \in 0..SolveMaxElems : inElements \in SolveElementLists(n)
    /\ \E w \in 0..SolveMaxWires :
          inWires \in SolveWireLists(w, TerminalIdsOf(inElements) \cup {SolveGhostId})
    /\ pc = "input"
    /\ nodes = <<>>
    /\ result = Null
    /\ canvas = Null

\* An exception leaves the call: no value is returned to the caller.
SolveThrow ==
    /\ pc = "input"
    /\ solveCircuit(inElements, inWires).thrown
    /\ pc' = "thrown"
    /\ UNCHANGED <<storeVars, inElements, inWires, nodes, result, canvas>>

\* const result = solveCircuit(elements, wires)
SolveReturn ==
    /\ pc = "input"
    /\ ~solveCircuit(inElements, inWires).thrown
    /\ result' = solveCircuit(inElements, inWires)
    /\ nodes' = IF Len(inElements) = 0 THEN <<>> ELSE extractNodes(inElements, inWires)
    /\ pc' = "done"
    /\ UNCHANGED <<storeVars, inElements, inWires, canvas>>

SolveNext == SolveReturn \/ SolveThrow

SpecSolve == SolveInit /\ [][SolveNext]_vars

(***************************************************************************)
(* Properties of solveCircuit.                                             *)
(***************************************************************************)
IsEmptyResult(r) ==
    /\ DOMAIN r.nodeVoltages = {}
    /\ DOMAIN r.elementCurrents = {}
    /\ DOMAIN r.elementPower = {}

\* C7: every SolverResult returned by solveCircuit has nodeVoltages
\* containing key 0 with value exactly 0.
C7_GroundAlwaysZero ==
    pc = "done" =>
        /\ 0 \in DOMAIN result.nodeVoltages
        /\ result.nodeVoltages[0] = Val(Zero)

\* C7 (amended): every SolverResult whose nodeVoltages is not empty has key 0
\* with value exactly 0; the results returned when there is nothing to
\* solve or the matrix is singular have an empty nodeVoltages, without key 0.
C7_GroundZeroWhenSolved ==
    pc = "done" =>
        \/ /\ 0 \in DOMAIN result.nodeVoltages
           /\ result.nodeVoltages[0] = Val(Zero)
        \/ /\ IsEmptyResult(result)
           /\ \/ Len(inElements) = 0
              \/ Len(nodes) <= 1
              \/ invThrows(assemble(inElements, nodes).A)

C7_Witness ==
    /\ pc = "done"
    /\ 0 \in DOMAIN result.nodeVoltages
    /\ \E i \in DOMAIN result.nodeVoltages : ~VEq(result.nodeVoltages[i], Val(Zero))

\* C8: when the elements list is empty, and when extraction yields no
\* non-ground node, solveCircuit returns three empty maps and assembles and
\* solves no matrix.
C8_EmptyWhenNothingToSolve ==
    (/\ pc # "input"
     /\ \/ Len(inElements) = 0
        \/ Len(extractNodes(inElements, inWires)) <= 1)
    => /\ pc = "done"
       /\ IsEmptyResult(result)
       /\ ~result.assembled

C8_Witness ==
    /\ pc = "done"
    /\ Len(inElements) > 0
    /\ Len(inWires) > 0
    /\ Len(nodes) = 1
    /\ Len(nodes[1].terminals) >= 2
    /\ IsEmptyResult(result)

\* Two independent voltage sources across the same pair of distinct nodes.
SourcesAcrossSamePair(i, j) ==
    /\ i # j
    /\ inElements[i].type = "VoltageSource" /\ Len(inElements[i].terminals) = 2
    /\ inElements[j].type = "VoltageSource" /\ Len(inElements[j].terminals) = 2
    /\ LET p1 == getNodeIndex(nodes, inElements[i].terminals[1].id)
           n1 == getNodeIndex(nodes, inElements[i].terminals[2].id)
           p2 == getNodeIndex(nodes, inElements[j].terminals[1].id)
           n2 == getNodeIndex(nodes, inElements[j].terminals[2].id)
       IN  p1 # n1 /\ {p1, n1} = {p2, n2}

C10_NeverThrows == pc # "thrown"

(***************************************************************************)
(* buildCircuitExplanation: the polarity of a voltage source.              *)
(***************************************************************************)
\* findNode(termId)?.id ?? 0
findNodeId(ns, termId) ==
    IF getNodeIndex(ns, termId) = -1 THEN 0 ELSE getNodeIndex(ns, termId)

\* terminals[0] = negative, terminals[1] = positive by convention
sourcePolarity(vs, ns) ==
    [idMinus |-> findNodeId(ns, vs.terminals[1].id),
     idPlus |-> findNodeId(ns, vs.terminals[2].id)]

\* The independent voltage sources among vSources, by their position idx.
VoltageSourceIdxs(els) ==
    {idx \in 0..(Len(SelectSeq(els, isVSource)) - 1) :
        SelectSeq(els, isVSource)[idx + 1].type = "VoltageSource"}

\* C12: the constraint row assembled for an independent voltage source of
\* value V encodes V(node of terminals[1]) - V(node of terminals[0]) = V, the
\* polarity the explanation generator uses: +1 in the column of its plus
\* node, -1 in the column of its minus node, V on the right-hand side.
C12_RowPolarityAsExplained ==
    (pc = "done" /\ result.assembled) =>
        \A idx \in VoltageSourceIdxs(inElements) :
            LET vs == SelectSeq(inElements, isVSource)[idx + 1]
                pol == sourcePolarity(vs, nodes)
                vIdx == Len(nodes) - 1 + idx
            IN  pol.idPlus # pol.idMinus =>
                  /\ pol.idPlus > 0 =>
                        MGet(assemble(inElements, nodes).A, vIdx, pol.idPlus - 1) = Num(1)
                  /\ pol.idMinus > 0 =>
                        MGet(assemble(inElements, nodes).A, vIdx, pol.idMinus - 1) = Num(-1)
                  /\ MGet(assemble(inElements, nodes).z, vIdx, 0) = Num(vs.value)

\* C13: a non-empty result has exactly one entry per input element in
\* elementCurrents and in elementPower (all four kinds) and exactly one
\* entry per extracted node in nodeVoltages (keys 0..n).
C13_KeySets ==
    (pc = "done" /\ ~IsEmptyResult(result)) =>
        /\ DOMAIN result.elementCurrents = {inElements[i].id : i \in 1..Len(inElements)}
        /\ DOMAIN result.elementPower = {inElements[i].id : i \in 1..Len(inElements)}
        /\ DOMAIN result.nodeVoltages = {nodes[i].id : i \in 1..Len(nodes)}
        /\ DOMAIN result.nodeVoltages = 0..(Len(nodes) - 1)

C13_Witness ==
    /\ pc = "done"
    /\ ~IsEmptyResult(result)
    /\ Len(inElements) = 2
    /\ inElements[1].type = "VCVS"
    /\ inElements[2].type = "CurrentSource"
    /\ Len(nodes) >= 3

(***************************************************************************)
(* Canvas: short-circuit detection on the solver result.                   *)
(***************************************************************************)
Infinity == [n |-> One, d |-> Zero]
isNaN(v) == IsZero(v.d) /\ IsZero(v.n)
isFinite(v) == ~IsZero(v.d)

\* The literal 9999 of isShortCircuit.
MaxCurrent == 9999

\* Math.abs(c) > k
absGreater(c, k) ==
    IF isNaN(c) THEN FALSE
    ELSE IF ~isFinite(c) THEN TRUE
    ELSE SignFrom(Sub(VAbs(c).n, Mul(Num(k), VAbs(c).d)), 1) > 0

\* Object.values(map)
ObjectValues(map) == {map[k] : k \in DOMAIN map}

isShortCircuit_every(nodeVoltages, elementCurrents) ==
    \/ \A v \in ObjectValues(nodeVoltages) : isNaN(v) \/ ~isFinite(v)
    \/ \A c \in ObjectValues(elementCurrents) :
          isNaN(c) \/ ~isFinite(c) \/ absGreater(c, MaxCurrent)

isShortCircuit_atThreshold(nodeVoltages, elementCurrents) ==
    \/ \E v \in ObjectValues(nodeVoltages) : isNaN(v) \/ ~isFinite(v)
    \/ \E c \in ObjectValues(elementCurrents) :
          isNaN(c) \/ ~isFinite(c) \/ absGreater(c, MaxCurrent - 1)

isShortCircuit(nodeVoltages, elementCurrents) ==
    \/ \E v \in ObjectValues(nodeVoltages) : isNaN(v) \/ ~isFinite(v)
    \/ \E c \in ObjectValues(elementCurrents) :
          isNaN(c) \/ ~isFinite(c) \/ absGreater(c, MaxCurrent)

isIndependentSource(e) == e.type = "VoltageSource"

\* Wires with an end on a terminal of a VoltageSource.
sourceWireIds(els, ws) ==
    {ws[i].id : i \in {j \in 1..Len(ws) :
        \/ ws[j].startTerminalId # NoId
              /\ ws[j].startTerminalId \in TerminalIdsOf(SelectSeq(els, isIndependentSource))
        \/ ws[j].endTerminalId # NoId
              /\ ws[j].endTerminalId \in TerminalIdsOf(SelectSeq(els, isIndependentSource))}}

shortedWireIds_sourcesOnly(short, els, ws, nodeVoltages) ==
    IF ~short THEN {} ELSE sourceWireIds(els, ws)

shortedWireIds(short, els, ws, nodeVoltages) ==
    IF ~short THEN {}
    ELSE IF \E v \in ObjectValues(nodeVoltages) : isNaN(v)
    THEN sourceWireIds(els, ws) \cup {ws[i].id : i \in 1..Len(ws)}
    ELSE sourceWireIds(els, ws)

shortedElementIds(short, els) ==
    IF ~short THEN {} ELSE {els[i].id : i \in 1..Len(els)}

(***************************************************************************)
(* Renders of the Canvas on bounded store contents.                        *)
(***************************************************************************)
CanvasMaxElems == 2
CanvasMaxWires == 2

\* Values set through updateElementValue (parseFloat(...) || 0).
CanvasValues(type) ==
    CASE type = "Resistor" -> {1, 0}
      [] type = "CurrentSource" -> {1, 9999, 10000}
      [] OTHER -> {getInitialValue(type)}

CanvasElementsAt(e) ==
    {InputElement(e, tv[1], tv[2], slotsRead(tv[1])) :
        tv \in UNION {{<<t, v>> : v \in CanvasValues(t)} : t \in ElementTypes}}

CanvasElementLists(n) ==
    {f \in [1..n -> UNION {CanvasElementsAt(e) : e \in 1..n}] :
        \A e \in 1..n : f[e].id = e}

hasZeroResistor(els) ==
    \E i \in 1..Len(els) : els[i].type = "Resistor" /\ els[i].value = 0

\* Results of a call whose matrix holds 1 / 0 = Infinity.  The arithmetic of
\* mathjs on such entries is not computed: node voltages other than ground,
\* and currents, may come out finite, NaN or infinite, or inv may throw.
nonFiniteResults(els, ns) ==
    {EmptyResult(TRUE)} \cup
    {[thrown |-> FALSE,
      nodeVoltages |-> [i \in 0..(Len(ns) - 1) |-> IF i = 0 THEN Val(Zero) ELSE v],
      elementCurrents |-> [id \in {els[i].id : i \in 1..Len(els)} |->
                              IF id = els[1].id THEN c1 ELSE c2],
      elementPower |-> [id \in {els[i].id : i \in 1..Len(els)} |->
                              IF id = els[1].id THEN c1 ELSE c2],
      assembled |-> TRUE] :
        v \in {Val(Zero), NaN, Infinity},
        c1 \in {Val(Zero), Val(Num(MaxCurrent + 1)), NaN, Infinity},
        c2 \in {Val(Zero), NaN}}

\* const fw = wires.filter(w => w.startTerminalId && w.endTerminalId);
\* return solveCircuit(elements, fw)
solverResults(els, ws) ==
    IF hasZeroResistor(els) /\ Len(extractNodes(els, SelectSeq(ws, WireBound))) > 1
    THEN nonFiniteResults(els, extractNodes(els, SelectSeq(ws, WireBound)))
    ELSE {solveCircuit(els, SelectSeq(ws, WireBound))}

CanvasInit ==
    /\ elements = <<>> /\ wires = <<>>
    /\ selectedElementIds = <<>> /\ selectedWireIds = <<>>
    /\ drawingWire = Null /\ nextId = FreshIds
    /\ \E n \in 0..CanvasMaxElems : inElements \in CanvasElementLists(n)
    /\ \E w \in 0..CanvasMaxWires :
          inWires \in SolveWireLists(w, TerminalIdsOf(inElements))
    /\ pc = "input"
    /\ nodes = <<>>
    /\ result = Null
    /\ canvas = Null

\* One render: the useMemo values of Canvas, lines 190-229.
CanvasRender ==
    /\ pc = "input"
    /\ \E r \in solverResults(inElements, inWires) :
          /\ result' = r
          /\ canvas' =
                [isShortCircuit |-> isShortCircuit(r.nodeVoltages, r.elementCurrents),
                 shortedWireIds |->
                     shortedWireIds(isShortCircuit(r.nodeVoltages, r.elementCurrents),
                                    inElements, inWires, r.nodeVoltages),
                 shortedElementIds |->
                     shortedElementIds(isShortCircuit(r.nodeVoltages, r.elementCurrents),
                                       inElements)]
    /\ nodes' = extractNodes(inElements, inWires)
    /\ pc' = "rendered"
    /\ UNCHANGED <<storeVars, inElements, inWires>>

CanvasNext == CanvasRender

SpecCanvas == CanvasInit /\ [][CanvasNext]_vars

(***************************************************************************)
(* Properties of the short-circuit detection.                              *)
(***************************************************************************)
\* A finite value n / d lies outside [-9999, 9999].
OutsideRange(c) ==
    \/ SignFrom(Sub(c.n, Mul(Num(9999), c.d)), 1) * SignFrom(c.d, 1) > 0
    \/ SignFrom(Add(c.n, Mul(Num(9999), c.d)), 1) * SignFrom(c.d, 1) < 0

AllWireIds == {inWires[i].id : i \in 1..Len(inWires)}
AllElementIds == {inElements[i].id : i \in 1..Len(inElements)}
SomeVoltageNaN ==
    \E k \in DOMAIN result.nodeVoltages :
        IsZero(result.nodeVoltages[k].n) /\ IsZero(result.nodeVoltages[k].d)

\* C15: the flag is raised exactly when some node voltage or element
\* current is NaN or infinite, or some current has magnitude above 9999; a
\* current of exactly 9999 with all values finite does not raise it.
C15_FlagIff ==
    pc = "rendered" =>
        (canvas.isShortCircuit <=>
            \/ \E k \in DOMAIN result.nodeVoltages : ~IsFiniteVal(result.nodeVoltages[k])
            \/ \E id \in DOMAIN result.elementCurrents :
                  \/ ~IsFiniteVal(result.elementCurrents[id])
                  \/ OutsideRange(result.elementCurrents[id]))

C15_Witness ==
    /\ pc = "rendered"
    /\ ~canvas.isShortCircuit
    /\ \E id \in DOMAIN result.elementCurrents :
          result.elementCurrents[id] = Val(Num(9999))
    /\ \A k \in DOMAIN result.nodeVoltages : IsFiniteVal(result.nodeVoltages[k])

\* C16: when the flag is raised and some node voltage is NaN, every wire id
\* is in shortedWireIds and every element id is in shortedElementIds.
C16_NaNMarksEverything ==
    (pc = "rendered" /\ canvas.isShortCircuit /\ SomeVoltageNaN) =>
        /\ canvas.shortedWireIds = AllWireIds
        /\ canvas.shortedElementIds = AllElementIds

C16_Witness ==
    /\ pc = "rendered" /\ canvas.isShortCircuit /\ SomeVoltageNaN
    /\ canvas.shortedWireIds = AllWireIds
    /\ \E i \in 1..Len(inElements) : inElements[i].type = "VoltageSource"
    /\ \E w \in AllWireIds : w \notin sourceWireIds(inElements, inWires)

\* C17: when the flag is raised and no node voltage is NaN, shortedWireIds
\* is exactly the set of wires with an end on a terminal of an independent
\* VoltageSource, and no element is marked (stated on the results that
\* solveCircuit computes with finite matrix entries).
C17_OnlySourceWiresMarked ==
    (/\ pc = "rendered" /\ ~hasZeroResistor(inElements)
     /\ canvas.isShortCircuit /\ ~SomeVoltageNaN) =>
        /\ canvas.shortedWireIds =
              {inWires[i].id : i \in {j \in 1..Len(inWires) :
                  \E e \in 1..Len(inElements) :
                      /\ inElements[e].type = "VoltageSource"
                      /\ \E k \in 1..Len(inElements[e].terminals) :
                            inElements[e].terminals[k].id
                                \in {inWires[j].startTerminalId, inWires[j].endTerminalId}}}
        /\ canvas.shortedElementIds = {}

\* C18: a result with empty maps never raises the flag and marks no wire and
\* no element, and the detection leaves the solver result as solveCircuit
\* returned it.
C18_EmptyNeverAnomalous ==
    pc = "rendered" =>
        /\ IsEmptyResult(result) =>
              /\ ~canvas.isShortCircuit
              /\ canvas.shortedWireIds = {}
              /\ canvas.shortedElementIds = {}
        /\ result \in solverResults(inElements, inWires)

C18_Witness ==
    /\ pc = "rendered"
    /\ IsEmptyResult(result) /\ result.assembled
    /\ sourceWireIds(inElements, inWires) # {}
    /\ ~canvas.isShortCircuit

(***************************************************************************)
(* Store: the actions that edit an element in place.                       *)
(***************************************************************************)
\* Values typed into the value field, and drag steps of an element.
EditValues == {0}
MoveDys == {-80, 80}

updateElementValue(id, value) ==
    /\ elements' = [i \in 1..Len(elements) |->
                       IF elements[i].id = id
                       THEN [elements[i] EXCEPT !.value = value]
                       ELSE elements[i]]
    /\ UNCHANGED <<wires, selectedElementIds, selectedWireIds, drawingWire, nextId, callVars>>

moveElement(id, dx, dy) ==
    /\ \A i \in 1..Len(elements) :
          elements[i].id = id => elements[i].y + dy \in DropYs
    /\ elements' = [i \in 1..Len(elements) |->
                       IF elements[i].id = id
                       THEN [elements[i] EXCEPT !.x = @ + dx, !.y = @ + dy]
                       ELSE elements[i]]
    /\ UNCHANGED <<wires, selectedElementIds, selectedWireIds, drawingWire, nextId, callVars>>

rotateElement(id) ==
    /\ elements' = [i \in 1..Len(elements) |->
                       IF elements[i].id = id
                       THEN [elements[i] EXCEPT !.rotation = (@ + 90) % 360]
                       ELSE elements[i]]
    /\ UNCHANGED <<wires, selectedElementIds, selectedWireIds, drawingWire, nextId, callVars>>

\* Only the first MaxEdited elements of the list are edited in place.
MaxEdited == 1
EditableIds == {elements[i].id : i \in {j \in 1..Len(elements) : j <= MaxEdited}}

NextEdit ==
    \/ Next
    \/ \E id \in EditableIds, value \in EditValues : updateElementValue(id, value)
    \/ \E id \in EditableIds, dy \in MoveDys : moveElement(id, 0, dy)
    \/ \E id \in EditableIds : rotateElement(id)

SpecEdit == StoreInit /\ [][NextEdit]_vars

\* Slot names of a kind, in order.
SlotNames(type) == IF type = "VCVS" THEN <<"A", "B", "C", "D">> ELSE <<"A", "B">>

TerminalsWellFormed ==
    \A i \in 1..Len(elements) :
        /\ Len(elements[i].terminals) = Len(SlotNames(elements[i].type))
        /\ \A k \in 1..Len(elements[i].terminals) :
              /\ elements[i].terminals[k].name = SlotNames(elements[i].type)[k]
              /\ elements[i].terminals[k].elementId = elements[i].id

TerminalsKept ==
    \A i \in 1..Len(elements) : \A j \in 1..Len(elements') :
        elements[i].id = elements'[j].id => elements[i].terminals = elements'[j].terminals

\* C19: in every reachable store state every element has the terminal count
\* of its kind (2, or 4 for a VCVS) in slot order A, B[, C, D], every
\* terminal's elementId is the id of the element holding it, and no store
\* action changes the terminal list of an existing element.
C19_TerminalLists == []TerminalsWellFormed /\ [][TerminalsKept]_vars

C19_Witness ==
    /\ Len(elements) = 2
    /\ elements[1].type = "VCVS"
    /\ elements[1].rotation = 270 /\ elements[1].value = 0 /\ elements[1].y = 80
    /\ Len(wires) = 1
    /\ Len(selectedElementIds) = 1

\* The accumulated stamp of one source in the column or row of `node`:
\* +1 if pos is the node, -1 if neg is the node, both added.
AccumulatedStamp(pos, neg, node) ==
    (IF pos = node THEN 1 ELSE 0) - (IF neg = node THEN 1 ELSE 0)

\* C20: for every assignment of an independent voltage source's terminals
\* to nodes, the assembled B and C entries of the source equal the
\* accumulated stamps (+1 at pos, -1 at neg, added to the entry), so they
\* are 0 when both terminals lie in the same non-ground node, and z[n+k] = V.
C20_AccumulatedStamps ==
    (pc = "done" /\ result.assembled) =>
        \A idx \in VoltageSourceIdxs(inElements) :
            LET vs == SelectSeq(inElements, isVSource)[idx + 1]
                pos == getNodeIndex(nodes, vs.terminals[1].id)
                neg == getNodeIndex(nodes, vs.terminals[2].id)
                vIdx == Len(nodes) - 1 + idx
            IN  /\ \A node \in 1..(Len(nodes) - 1) :
                      /\ MGet(assemble(inElements, nodes).A, node - 1, vIdx)
                            = Num(AccumulatedStamp(pos, neg, node))
                      /\ MGet(assemble(inElements, nodes).A, vIdx, node - 1)
                            = Num(AccumulatedStamp(pos, neg, node))
                /\ MGet(assemble(inElements, nodes).z, vIdx, 0) = Num(vs.value)

\* The dependent sources among vSources, by their position idx.
VCVSIdxs(els) ==
    {idx \in 0..(Len(SelectSeq(els, isVSource)) - 1) :
        SelectSeq(els, isVSource)[idx + 1].type = "VCVS"}

Ind(b) == IF b THEN 1 ELSE 0

\* C21: for every assignment of a VCVS's four terminals to nodes, row n+k
\* equals the accumulated stamps +1 at outPos, -1 at outNeg, -gain at inPos,
\* +gain at inNeg (ground entries omitted), with z[n+k] = 0.
C21_VCVSRowAccumulated ==
    (pc = "done" /\ result.assembled) =>
        \A idx \in VCVSIdxs(inElements) :
            LET vs == SelectSeq(inElements, isVSource)[idx + 1]
                outPos == getNodeIndex(nodes, vs.terminals[1].id)
                outNeg == getNodeIndex(nodes, vs.terminals[2].id)
                inPos == getNodeIndex(nodes, vs.terminals[3].id)
                inNeg == getNodeIndex(nodes, vs.terminals[4].id)
                vIdx == Len(nodes) - 1 + idx
            IN  /\ \A node \in 1..(Len(nodes) - 1) :
                      MGet(assemble(inElements, nodes).A, vIdx, node - 1)
                        = Num(Ind(outPos = node) - Ind(outNeg = node)
                              - vs.value * Ind(inPos = node) + vs.value * Ind(inNeg = node))
                /\ MGet(assemble(inElements, nodes).z, vIdx, 0) = Zero

\* The stamp of one resistor on entry (a, b) of the node block, a and b
\* non-ground node ids: +g on the diagonal per terminal in the node, -g per
\* ordered pair of its terminals lying in a and in b.
ResistorStamp(e, a, b) ==
    LET t1 == getNodeIndex(nodes, e.terminals[1].id)
        t2 == getNodeIndex(nodes, e.terminals[2].id)
        count == IF a = b
                 THEN Ind(t1 = a) + Ind(t2 = a) - 2 * Ind(t1 = a /\ t2 = a)
                 ELSE 0 - Ind(t1 = a /\ t2 = b) - Ind(t1 = b /\ t2 = a)
    IN  <<Frac(count, e.value)>>

RECURSIVE SumStamps(_, _, _)
SumStamps(els, a, b) ==
    IF els = <<>> THEN Zero
    ELSE IF Head(els).type = "Resistor"
    THEN Add(ResistorStamp(Head(els), a, b), SumStamps(Tail(els), a, b))
    ELSE SumStamps(Tail(els), a, b)

\* C22: the node block assembled from the resistors is the sum of the
\* per-resistor stamps (the GMIN of line 71 apart): stamps accumulate, the
\* block is symmetric, and a resistor with both terminals in one node
\* contributes nothing.
C22_ResistorBlock ==
    (pc = "done" /\ result.assembled) =>
        \A a, b \in 1..(Len(nodes) - 1) :
            /\ IsZero(Sub(Sub(MGet(assemble(inElements, nodes).A, a - 1, b - 1),
                              IF a = b THEN GMIN ELSE Zero),
                          SumStamps(inElements, a, b)))
            /\ MGet(assemble(inElements, nodes).A, a - 1, b - 1)
                  = MGet(assemble(inElements, nodes).A, b - 1, a - 1)

\* Two resistors stamping the same non-ground node, next to a node pair
\* with an off-diagonal entry.
C22_Witness ==
    /\ pc = "done" /\ result.assembled
    /\ Len(inElements) = 2
    /\ inElements[1].type = "Resistor" /\ inElements[2].type = "Resistor"
    /\ inElements[2].value = 2
    /\ \E a \in 1..(Len(nodes) - 1) :
          /\ getNodeIndex(nodes, inElements[1].terminals[2].id) = a
          /\ getNodeIndex(nodes, inElements[2].terminals[2].id) = a

(***************************************************************************)
(* Wires committed by the store (checked under Spec).                      *)
(***************************************************************************)
NoSelfWire ==
    \A i \in 1..Len(wires) : wires[i].startTerminalId # wires[i].endTerminalId

\* A step that is finishWire on the terminal the wire in progress started at.
FinishOnStart ==
    /\ drawingWire # Null
    /\ \E t \in StoreTerminalIds :
          finishWire(t) /\ drawingWire[1].startTerminalId = t

\* C23: no wire of the store connects a terminal to itself, whether it was
\* committed by finishWire or by mergeNearbyTerminals; finishWire on the
\* terminal the wire started at discards the wire in progress and commits
\* nothing.
C23_NoSelfWire ==
    /\ []NoSelfWire
    /\ [][FinishOnStart => (wires' = wires /\ drawingWire' = Null)]_vars

\* A wire between the two terminals of one element (80 units apart, out of
\* SNAP's reach) was committed by finishWire.
C23_Witness ==
    \E i \in 1..Len(wires) :
        /\ wires[i].startTerminalId = TermId(1, 1)
        /\ wires[i].endTerminalId = TermId(1, 2)

\* A fully-bound wire of ws runs directly between a and b, either way round.
DirectlyWired(ws, a, b) ==
    \E k \in 1..Len(ws) :
        /\ ws[k].startTerminalId # NoId /\ ws[k].endTerminalId # NoId
        /\ {ws[k].startTerminalId, ws[k].endTerminalId} = {a, b}

\* The wires a step appended to the store.
AddedWireIdxs == (Len(wires) + 1)..Len(wires')

\* The wires a call of mergeNearbyTerminals would add to the present store
\* join no two terminals that already have a wire between them.
MergeAddsOnlyNew ==
    \A k \in 1..Len(mergeLoop(terminalPositions(elements), 1, 2,
                              connectedPairs(wires), <<>>)) :
        ~DirectlyWired(wires,
            mergeLoop(terminalPositions(elements), 1, 2,
                      connectedPairs(wires), <<>>)[k].startTerminalId,
            mergeLoop(terminalPositions(elements), 1, 2,
                      connectedPairs(wires), <<>>)[k].endTerminalId)

SwapEnds(ws, i) ==
    [ws EXCEPT ![i] = [@ EXCEPT !.startTerminalId = ws[i].endTerminalId,
                                !.endTerminalId = ws[i].startTerminalId]]

\* ws with wires i and j exchanged.
Exchange(ws, i, j) == [ws EXCEPT ![i] = ws[j], ![j] = ws[i]]

\* C25: extractNodes returns the same nodes (ground, ids, terminal order)
\* when the wires are listed in another order or a wire is turned round.
C25_WireOrderIrrelevant ==
    pc = "done" =>
        /\ \A i \in 1..Len(inWires) :
              extractNodes(inElements, SwapEnds(inWires, i)) = nodes
        /\ \A i, j \in 1..Len(inWires) :
              extractNodes(inElements, Exchange(inWires, i, j)) = nodes

\* Two bound wires chained through one terminal: their order and direction
\* decide which terminal becomes the root.
C25_Witness ==
    /\ pc = "done"
    /\ Len(inWires) = 2
    /\ WireBound(inWires[1]) /\ WireBound(inWires[2])
    /\ inWires[1].endTerminalId = inWires[2].startTerminalId
    /\ inWires[1].startTerminalId # inWires[2].endTerminalId
    /\ inWires[1].startTerminalId \in TerminalIdsOf(inElements)
    /\ inWires[2].endTerminalId \in TerminalIdsOf(inElements)
    /\ \E n \in 1..Len(nodes) : Len(nodes[n].terminals) >= 3

\* Following parent from id reaches a self-pointing root within n steps.
RECURSIVE RootWithin(_, _, _)
RootWithin(parent, id, n) ==
    IF parent[id] = id THEN TRUE
    ELSE IF n = 0 THEN FALSE
    ELSE RootWithin(parent, parent[id], n - 1)

\* C26: after the unions of the wires loop the parent map is a forest, and
\* getParent of any terminal id returns a self-pointing root r and leaves
\* parent[id] = r.
C26_ParentForest ==
    pc = "done" =>
        /\ \A id \in DOMAIN unionFind(inWires) :
              /\ unionFind(inWires)[id] \in DOMAIN unionFind(inWires)
              /\ RootWithin(unionFind(inWires), id, Cardinality(DOMAIN unionFind(inWires)))
        /\ \A id \in (DOMAIN unionFind(inWires)) \cup TerminalIdsOf(inElements) :
              /\ getParent(unionFind(inWires), id).parent[getParent(unionFind(inWires), id).root]
                    = getParent(unionFind(inWires), id).root
              /\ getParent(unionFind(inWires), id).parent[id]
                    = getParent(unionFind(inWires), id).root

\* The unions left a terminal two links away from its root.
C26_Witness ==
    /\ pc = "done"
    /\ \E id \in DOMAIN unionFind(inWires) :
          /\ unionFind(inWires)[id] # id
          /\ unionFind(inWires)[unionFind(inWires)[id]] # unionFind(inWires)[id]

\* The filter of the components: w => w.startTerminalId && w.endTerminalId.
isFullyBound(w) == w.startTerminalId # NoId /\ w.endTerminalId # NoId

\* C27: extractNodes on all the wires (what Canvas and CircuitSummary look
\* voltages up with) returns the nodes extractNodes returns on the wires
\* filtered to fully-bound ones (what solveCircuit numbered its result by).
C27_DisplayNodesMatchSolver ==
    pc = "done" =>
        extractNodes(inElements, SelectSeq(inWires, isFullyBound)) = nodes

\* Two wires in progress from terminals of different elements, both with no
\* end: the filter drops them, extractNodes has to skip them.
C27_Witness ==
    /\ pc = "done"
    /\ Len(inElements) = 2
    /\ Len(inWires) = 2
    /\ inWires[1].endTerminalId = NoId /\ inWires[2].endTerminalId = NoId
    /\ inWires[1].startTerminalId = TermId(1, 1)
    /\ inWires[2].startTerminalId = TermId(2, 1)
    /\ Len(nodes) = Len(FlatMapTerminals(inElements))

(***************************************************************************)
(* CircuitSummary of the PropertiesPanel (checked under SpecCanvas).       *)
(***************************************************************************)
\* Object.values(nodeVoltages ?? {}).some(v => isNaN(v) || !isFinite(v))
hasNaN(nodeVoltages) ==
    \E v \in ObjectValues(nodeVoltages) : isNaN(v) \/ ~isFinite(v)

\* C28: the Canvas flag isShortCircuit is raised exactly when the
\* CircuitSummary flag hasNaN is (stated on the results that solveCircuit
\* computes with finite matrix entries and returns).
C28_IndicatorsAgree ==
    (pc = "rendered" /\ ~hasZeroResistor(inElements) /\ ~result.thrown) =>
        (canvas.isShortCircuit <=> hasNaN(result.nodeVoltages))

(***************************************************************************)
(* Canvas in measure mode: the two-probe voltmeter.  `canvas` holds the    *)
(* React state probe1 and measureResult; the store is edited in between.   *)
(***************************************************************************)
\* Kinds dropped and values typed while measuring.
MeasureTypes == {"Resistor", "VoltageSource"}
MeasureValues == {2}

\* nodeVoltages?.[n.id] ?? 0
voltageOrZero(nodeVoltages, id) ==
    IF id \in DOMAIN nodeVoltages THEN nodeVoltages[id] ELSE Val(Zero)

\* getTerminalInfo, given the memoised nodeVoltages and the id of the node
\* found for the terminal (-1 when nodes.find returns undefined).
terminalInfoOf(nodeVoltages, nodeId) ==
    [voltage |-> IF nodeId = -1 THEN Val(Zero) ELSE voltageOrZero(nodeVoltages, nodeId),
     label |-> IF nodeId = -1 THEN <<"Float">>
               ELSE IF nodeId = 0 THEN <<"GND">> ELSE <<"N", nodeId>>]

\* The render's solverResult (fully-bound wires) and nodes (all wires).
getTerminalInfo(els, ws, tid) ==
    terminalInfoOf(solveCircuit(els, SelectSeq(ws, isFullyBound)).nodeVoltages,
                   getNodeIndex(extractNodes(els, ws), tid))

NoMeasure == [probe1 |-> Null, measureResult |-> Null]

MeasureInit ==
    /\ elements = <<>> /\ wires = <<>>
    /\ selectedElementIds = <<>> /\ selectedWireIds = <<>>
    /\ drawingWire = Null /\ nextId = FreshIds
    /\ inElements = <<>> /\ inWires = <<>>
    /\ pc = "measure"
    /\ nodes = <<>> /\ result = Null
    /\ canvas = NoMeasure

clearMeasure ==
    /\ canvas' = NoMeasure
    /\ UNCHANGED <<storeVars, inElements, inWires, pc, nodes, result>>

\* The three branches of measureTerminal, info being getTerminalInfo's result.
measured(terminalId, info) ==
    IF canvas.probe1 = Null
    THEN [probe1 |-> <<[terminalId |-> terminalId,
                        voltage |-> info.voltage, label |-> info.label]>>,
          measureResult |-> <<[kind |-> "node1", terminalId |-> terminalId,
                               voltage |-> info.voltage, label |-> info.label]>>]
    ELSE IF canvas.probe1[1].terminalId = terminalId
    THEN NoMeasure
    ELSE [probe1 |-> Null,
          measureResult |-> <<[kind |-> "node2",
                               probe1 |-> canvas.probe1[1],
                               probe2 |-> info,
                               delta |-> VAbs(VSub(canvas.probe1[1].voltage, info.voltage))]>>]

\* A click on a terminal in measure mode; there is no Canvas to click on
\* when solveCircuit threw during the render.
measureTerminal(terminalId) ==
    /\ ~throwsTypeError(elements)
    /\ canvas' = measured(terminalId, getTerminalInfo(elements, wires, terminalId))
    /\ UNCHANGED <<storeVars, inElements, inWires, pc, nodes, result>>

MeasureNext ==
    \/ /\ nextId.element <= MaxElemIds
       /\ \E type \in MeasureTypes, y \in DropYs : addElement(type, 0, y)
    \/ \E id \in EditableIds, value \in MeasureValues : updateElementValue(id, value)
    \/ \E id \in ElementIds : selectItem(id, FALSE, FALSE)
    \/ deleteSelection
    \/ mergeNearbyTerminals
    \/ \E t \in StoreTerminalIds : measureTerminal(t)
    \/ clearMeasure

SpecMeasure == MeasureInit /\ [][MeasureNext]_vars

\* A click on a terminal while a first probe is set.
SecondClick(t) == canvas.probe1 # Null /\ measureTerminal(t)

\* C29: the second click on a different terminal reports |V(t1) - V(t2)| of
\* the circuit as it is at that click, whatever edits came between the two
\* clicks, and resets the first probe; a second click on the same terminal
\* clears the measurement.
C29_TwoProbeDelta ==
    [][\A t \in StoreTerminalIds : SecondClick(t) =>
          IF canvas.probe1[1].terminalId = t
          THEN canvas' = NoMeasure
          ELSE /\ canvas'.probe1 = Null
               /\ canvas'.measureResult # Null
               /\ canvas'.measureResult[1].kind = "node2"
               /\ VEq(canvas'.measureResult[1].delta,
                      VAbs(VSub(getTerminalInfo(elements, wires,
                                                canvas.probe1[1].terminalId).voltage,
                                getTerminalInfo(elements, wires, t).voltage)))]_vars

(***************************************************************************)
(* Labels of the elements: the store under addElement, selection and       *)
(* deleteSelection only.                                                   *)
(***************************************************************************)
MaxLabelIds == 3     \* elements created in one run of SpecLabels
LabelTypes == {"Resistor", "VoltageSource"}

LabelNext ==
    \/ /\ nextId.element <= MaxLabelIds
       /\ \E type \in LabelTypes : addElement(type, 0, 0)
    \/ \E id \in ElementIds, multi \in BOOLEAN : selectItem(id, multi, FALSE)
    \/ deleteSelection

SpecLabels == StoreInit /\ [][LabelNext]_vars

\* C30: no two elements of the store carry the same label.
C30_LabelsUnique ==
    \A i, j \in 1..Len(elements) :
        elements[i].label = elements[j].label => i = j

====
